---------------------------- MODULE Spec2Model ----------------------------
(***************************************************************************)
(* Shape_detection_3 (efficient RANSAC): the detection driver `detect`,    *)
(* candidate selection `getBestCandidate`, bound refinement `improveBound` *)
(* and the overlook probability `StopProbability`, as a state machine.     *)
(*                                                                         *)
(* Points are the indices 0..numPoints-1 of the input range.  The octrees  *)
(* (Octree.h) and the shape base class (Shape_base.h) are not part of the  *)
(* sources at hand; the operators that stand for them follow the design    *)
(* document and say so in their comment.                                   *)
(*                                                                         *)
(* Numbers of type FT are kept as exact fractions <<num, den>>, den > 0;   *)
(* the IEEE results of a division by zero (-inf, +inf, NaN) that           *)
(* StopProbability can produce are kept as such.                           *)
(***************************************************************************)
EXTENDS Integers, Sequences, FiniteSets, TLC

(***************************************************************************)
(* Bounds of the model.                                                    *)
(***************************************************************************)
\* largest input size N = beyond - first
MaxPoints == 5
\* largest number of registered shape factories
MaxFactories == 2
\* largest candidate pool
MaxPool == 2
\* largest number of candidate draws (nbNewCandidates) in one detect
MaxDrawn == 3
\* the failure ceiling of line 338 (10000 in the source), scaled to the model
FailedCeiling == 2

(***************************************************************************)
(* Inputs the model draws from.                                            *)
(***************************************************************************)
\* depths of the global octree: a single leaf (0) or one subdivision (1)
OctreeDepths == {0, 1}
\* Parameters::probability, as fractions
Probabilities == {<<1, 2>>, <<1, 1>>}
\* Parameters::min_points for an input of n points
MinPointsChoices(n) == {0, 1, 2, n + 1}

(***************************************************************************)
(* Program constants.                                                      *)
(***************************************************************************)
\* int requiredSamples = 4
RequiredSamples == 4
\* improveBound(p, ..., 1, 500): min_points argument at candidate generation
GenMinPoints == 500
\* improveBound(p, ..., 1, 500): max_subset argument at candidate generation
GenMaxSubset == 1
\* "min number of points to create a candidate" (comment of StopProbability)
MinimalSampleSize == 3
\* m_shapeIndex value of an unassigned point
Unassigned == -1

(***************************************************************************)
(* Arithmetic helpers.                                                     *)
(***************************************************************************)
Max(a, b) == IF a >= b THEN a ELSE b

RECURSIVE Pow(_, _)
Pow(b, e) == IF e <= 0 THEN 1 ELSE b * Pow(b, e - 1)

RECURSIVE Gcd(_, _)
Gcd(a, b) == IF b = 0 THEN a ELSE Gcd(b, a % b)

\* the fraction n/d in lowest terms (d > 0, n >= 0)
Frac(n, d) == LET g == Gcd(n, d) IN IF g = 0 THEN <<0, 1>> ELSE <<n \div g, d \div g>>

FracLess(x, y) == x[1] * y[2] < y[1] * x[2]

FracLeq(x, y) == x[1] * y[2] <= y[1] * x[2]

\* the ascending sequence of the elements of a finite set of integers
RECURSIVE SortedSeq(_)
SortedSeq(S) ==
  IF S = {} THEN <<>>
  ELSE LET m == CHOOSE x \in S : \A y \in S : x <= y
       IN <<m>> \o SortedSeq(S \ {m})

SeqRange(s) == {s[i] : i \in 1..Len(s)}

RECURSIVE SumLen(_)
SumLen(ss) == IF ss = <<>> THEN 0 ELSE Len(Head(ss)) + SumLen(Tail(ss))

(***************************************************************************)
(* Construction: number of subsets and the index range of each direct      *)
(* octree (constructor, lines 180-220).                                    *)
(***************************************************************************)
RECURSIVE FloorLog2(_)
FloorLog2(n) == IF n <= 1 THEN 0 ELSE 1 + FloorLog2(n \div 2)

\* m_num_subsets
NumSubsets(n) == Max(FloorLog2(n) - 9, 2)

\* remainingPoints when the construction loop reaches subset s
RECURSIVE RemainingAt(_, _)
RemainingAt(n, s) ==
  IF s = NumSubsets(n) - 1 THEN n
  ELSE LET r == RemainingAt(n, s + 1) IN r - (r \div 2)

\* m_direct_octrees[s]->size()
SubsetSize(n, s) == IF s > 0 THEN RemainingAt(n, s) \div 2 ELSE RemainingAt(n, 0)

\* m_direct_octrees[s]->offset()
SubsetOffset(n, s) == IF s > 0 THEN RemainingAt(n, s) - SubsetSize(n, s) ELSE 0

\* the point indices owned by direct octree s
SubsetRange(n, s) == {i \in 0..(n - 1) : SubsetOffset(n, s) <= i /\ i - SubsetOffset(n, s) < SubsetSize(n, s)}

VARIABLES
  pc,                      \* where detect() stands: idle, seed, draw, select, done
                           \* (seed: line 303, draw: line 307, select: line 353)
  numPoints,               \* N = beyond - first of the input range
  maxLevel,                \* m_global_octree->maxLevel()
  numFactories,            \* m_shapeFactories.size()
  m_options,               \* Parameters: probability (fraction) and min_points
  m_shapeIndex,            \* vector<int>: point index -> shape id or -1
  m_numAvailablePoints,    \* unsigned int
  m_availableOctreeSizes,  \* vector<int>, one counter per subset
  m_extractedShapes,       \* sequence of the assigned-point lists of the shapes
  candidates,              \* detect's local pool (sequence of candidates)
  bestExp,                 \* detect's local (fraction)
  numInvalid,              \* detect's local
  nbNewCandidates,         \* detect's local
  nbFailedCandidates,      \* detect's local
  forceExit,               \* detect's local
  log,                     \* the diagnostics detect has printed
  ctor,                    \* the constructor's position and loop locals:
                           \* pc, s, remainingPoints, last (as an index)
  first,                   \* the caller's point array [first, beyond), which
                           \* the constructor permutes in place
  m_num_subsets,           \* unsigned int
  m_direct_octrees,        \* per subset: offset and size of its direct octree
  run1                     \* the array an earlier construction over the same
                           \* input left, to compare two runs

vars == <<pc, numPoints, maxLevel, numFactories, m_options, m_shapeIndex,
          m_numAvailablePoints, m_availableOctreeSizes, m_extractedShapes,
          candidates, bestExp, numInvalid, nbNewCandidates,
          nbFailedCandidates, forceExit, log,
          ctor, first, m_num_subsets, m_direct_octrees, run1>>

locals == <<candidates, bestExp, numInvalid, nbNewCandidates,
            nbFailedCandidates, forceExit>>

\* what the constructor leaves behind
built == <<ctor, first, m_num_subsets, m_direct_octrees, run1>>

engine == <<numPoints, maxLevel, numFactories, built>>

\* the array of an input whose contents the model does not follow
Untracked == <<>>

\* no earlier run
NoRun == <<-1>>

(***************************************************************************)
(* State after construction (constructor, lines 161-226): the subsets are  *)
(* built, every counter of m_availableOctreeSizes holds its subset's size, *)
(* m_shapeIndex is still empty and no factory is registered.               *)
(***************************************************************************)
Init ==
  /\ pc = "idle"
  /\ numPoints \in 1..MaxPoints
  /\ maxLevel \in OctreeDepths
  /\ numFactories = 0
  /\ m_options = [probability |-> <<1, 1>>, min_points |-> 0]
  /\ m_shapeIndex = [i \in {} |-> Unassigned]
  /\ m_numAvailablePoints = numPoints
  /\ m_availableOctreeSizes = [s \in 0..(NumSubsets(numPoints) - 1) |-> SubsetSize(numPoints, s)]
  /\ m_extractedShapes = <<>>
  /\ candidates = <<>>
  /\ bestExp = <<0, 1>>
  /\ numInvalid = 0
  /\ nbNewCandidates = 0
  /\ nbFailedCandidates = 0
  /\ forceExit = FALSE
  /\ log = {}
  /\ ctor = [pc |-> "built", s |-> -1, remainingPoints |-> 0,
             last |-> SubsetSize(numPoints, 0) - 1]
  /\ first = Untracked
  /\ m_num_subsets = NumSubsets(numPoints)
  /\ m_direct_octrees = [j \in 0..(NumSubsets(numPoints) - 1) |->
                           [offset |-> SubsetOffset(numPoints, j),
                            size |-> SubsetSize(numPoints, j)]]
  /\ run1 = NoRun

(***************************************************************************)
(* The constructor (lines 161-226), step by step: the number of subsets,   *)
(* then one pass of the loop of line 190 per subset, from the last subset  *)
(* down to subset 0.  The points of the input are named 1..N by their      *)
(* place in the caller's array; first[p + 1] is the point at index p.      *)
(***************************************************************************)
\* largest input whose array contents are followed
MaxTracked == 6

\* larger inputs, of three and four subsets: their sizes and ranges are
\* followed, the contents of their array are not
LargeInputs == {4095, 4096, 4097, 8191, 8192, 8193}

\* beyond - first of the inputs of the constructor
CtorInputs == (0..MaxTracked) \cup LargeInputs

Tracked(n) == n <= MaxTracked

\* a slot of m_direct_octrees that was not assigned yet
NoOctree == [begin |-> -1, size |-> -1, offset |-> -1]

\* line 180 for an empty input: log(0.) is -inf, its conversion to int is
\* undefined; INT_MIN - 9 wrapped around gives this value
WrappedSubsets == 2147483639

\* line 180: the values m_num_subsets can take; an empty input gives 2 when
\* the converted value stays negative, or the wrapped value
NumSubsetsOutcomes(n) == IF n = 0 THEN {2, WrappedSubsets} ELSE {NumSubsets(n)}

\* lines 187-188: resize(m_num_subsets) and new Direct_octree *[m_num_subsets]
\* throw std::bad_alloc for the wrapped value
CanAllocate(k) == k < WrappedSubsets

\* lines 196-198 with positions counted from 1
PickIndex_FromOne(bit, i, remaining) ==
  LET index == bit + 2 * i + 1
  IN IF index >= remaining THEN remaining - 1 ELSE index

\* lines 196-198: the index picked for position i of a subset
PickIndex(bit, i, remaining) ==
  LET index == bit + 2 * i
  IN IF index >= remaining THEN remaining - 1 ELSE index

\* lines 191-194 with the half rounded up
LoopSubsetSize_RoundUp(sidx, remaining) ==
  IF sidx > 0 THEN (remaining + 1) \div 2 ELSE remaining

\* lines 191-194: subsetSize = remainingPoints, halved (>>= 1) unless s is 0
LoopSubsetSize(sidx, remaining) == IF sidx > 0 THEN remaining \div 2 ELSE remaining

\* lines 203-208 without the write of tmp back into the picked place
RECURSIVE MoveToEnd_NoWriteBack(_, _, _, _)
MoveToEnd_NoWriteBack(arr, indices, i, last) ==
  IF i < 0 THEN arr
  ELSE MoveToEnd_NoWriteBack([arr EXCEPT ![last + 1] = arr[indices[i] + 1]],
                             indices, i - 1, last - 1)

\* lines 203-208: swap the picked points to the end of the array, from
\* i = subsetSize - 1 down to 0; last is the index the iterator points at
RECURSIVE MoveToEnd(_, _, _, _)
MoveToEnd(arr, indices, i, last) ==
  IF i < 0 THEN arr
  ELSE MoveToEnd([arr EXCEPT ![last + 1] = arr[indices[i] + 1],
                             ![indices[i] + 1] = arr[last + 1]],
                 indices, i - 1, last - 1)

\* the array as the caller passes it
InputArray(n) == IF Tracked(n) THEN [i \in 1..n |-> i] ELSE Untracked

\* before the constructor runs
CtorInit ==
  /\ pc = "unbuilt"
  /\ numPoints \in CtorInputs
  /\ maxLevel = 0
  /\ numFactories = 0
  /\ m_options = [probability |-> <<1, 1>>, min_points |-> 0]
  /\ m_shapeIndex = [i \in {} |-> Unassigned]
  /\ m_numAvailablePoints = 0
  /\ m_availableOctreeSizes = [j \in {} |-> 0]
  /\ m_extractedShapes = <<>>
  /\ candidates = <<>>
  /\ bestExp = <<0, 1>>
  /\ numInvalid = 0
  /\ nbNewCandidates = 0
  /\ nbFailedCandidates = 0
  /\ forceExit = FALSE
  /\ log = {}
  /\ ctor = [pc |-> "new", s |-> 0, remainingPoints |-> 0, last |-> 0]
  /\ first = InputArray(numPoints)
  /\ m_num_subsets = 0
  /\ m_direct_octrees = [j \in {} |-> NoOctree]
  /\ run1 = NoRun

\* what the constructor never writes
detection == <<pc, numPoints, maxLevel, numFactories, m_options, m_shapeIndex,
               m_extractedShapes, log>>

\* lines 165-188: no test of the input's length; the number of subsets, the
\* counters and the array of octrees
CtorBegin ==
  /\ ctor.pc = "new"
  /\ \E k \in NumSubsetsOutcomes(numPoints) :
       /\ m_numAvailablePoints' = numPoints
       /\ m_num_subsets' = k
       /\ IF CanAllocate(k)
          THEN /\ m_availableOctreeSizes' = [j \in 0..(k - 1) |-> 0]
               /\ m_direct_octrees' = [j \in 0..(k - 1) |-> NoOctree]
               /\ ctor' = [pc |-> "subsets", s |-> k - 1, remainingPoints |-> numPoints,
                           last |-> numPoints - 1]
          ELSE /\ ctor' = [ctor EXCEPT !.pc = "bad_alloc"]
               /\ UNCHANGED <<m_availableOctreeSizes, m_direct_octrees>>
  /\ UNCHANGED <<detection, locals, first, run1>>

\* lines 190-220: one pass of the loop, for subset ctor.s
BuildSubset ==
  /\ ctor.pc = "subsets"
  /\ \E subsetSize \in {LoopSubsetSize(ctor.s, ctor.remainingPoints)} :
     \E bits \in IF ctor.s > 0 /\ Tracked(numPoints)
                 THEN [0..(subsetSize - 1) -> {0, 1}]
                 ELSE {[i \in {} |-> 0]} :
     \E indices \in {[i \in DOMAIN bits |-> PickIndex(bits[i], i, ctor.remainingPoints)]} :
     \E end \in {IF ctor.s > 0 THEN ctor.last - subsetSize ELSE ctor.last} :
       /\ first' = IF ctor.s > 0 /\ Tracked(numPoints)
                   THEN MoveToEnd(first, indices, subsetSize - 1, ctor.last)
                   ELSE first
       /\ m_direct_octrees' =
            [m_direct_octrees EXCEPT ![ctor.s] =
               IF ctor.s > 0
               THEN [begin |-> end + 1, size |-> subsetSize,
                     offset |-> ctor.remainingPoints - subsetSize]
               ELSE [begin |-> 0, size |-> subsetSize, offset |-> 0]]
       /\ m_availableOctreeSizes' = [m_availableOctreeSizes EXCEPT ![ctor.s] = subsetSize]
       /\ ctor' = [pc |-> IF ctor.s = 0 THEN "built" ELSE "subsets",
                   s |-> ctor.s - 1,
                   remainingPoints |-> ctor.remainingPoints - subsetSize,
                   last |-> end]
  /\ UNCHANGED <<detection, locals, m_numAvailablePoints, m_num_subsets, run1>>

\* a second engine is constructed over a copy of the same input, with the
\* same arguments; the array the first left is kept for comparison
SecondRun ==
  /\ ctor.pc = "built"
  /\ run1 = NoRun
  /\ Tracked(numPoints)
  /\ run1' = first
  /\ first' = InputArray(numPoints)
  /\ ctor' = [pc |-> "new", s |-> 0, remainingPoints |-> 0, last |-> 0]
  /\ m_num_subsets' = 0
  /\ m_numAvailablePoints' = 0
  /\ m_availableOctreeSizes' = [j \in {} |-> 0]
  /\ m_direct_octrees' = [j \in {} |-> NoOctree]
  /\ UNCHANGED <<detection, locals>>

CtorNext ==
  \/ CtorBegin
  \/ BuildSubset
  \/ SecondRun

CtorSpec == CtorInit /\ [][CtorNext]_vars

\* add_shape_factory (lines 254-257)
AddShapeFactory ==
  /\ pc = "idle"
  /\ numFactories < MaxFactories
  /\ numFactories' = numFactories + 1
  /\ UNCHANGED <<pc, numPoints, maxLevel, m_options, m_shapeIndex, m_numAvailablePoints,
                 m_availableOctreeSizes, m_extractedShapes, log>>
  /\ UNCHANGED locals
  /\ UNCHANGED built


(***************************************************************************)
(* StopProbability (lines 617-619):                                        *)
(*   min<float>(pow(1.f - _sizeC / (_np * _l * 3), _dC), 1.)               *)
(* _sizeC is a fraction, the other arguments are integers >= 0.  The       *)
(* result is [kind, val]: kind "num" with the fraction val, or the IEEE    *)
(* results of _np * _l * 3 = 0: "neginf" (pow(-inf, odd)), "nan" (0/0);    *)
(* pow(-inf, even) = +inf and min(+inf, 1) = 1; pow(x, 0) = 1 for every x. *)
(***************************************************************************)
StopProbability(sizeC, np, dC, l) ==
  LET D == np * l * 3
      one == [kind |-> "num", val |-> <<1, 1>>]
  IN IF dC = 0 THEN one
     ELSE IF D = 0
       THEN IF sizeC[1] = 0 THEN [kind |-> "nan", val |-> <<0, 1>>]
            ELSE IF dC % 2 = 1 THEN [kind |-> "neginf", val |-> <<0, 1>>]
            ELSE one
       ELSE LET num == Pow(D * sizeC[2] - sizeC[1], dC)
                den == Pow(D * sizeC[2], dC)
            IN IF num > den THEN one ELSE [kind |-> "num", val |-> <<num, den>>]

\* the comparison of lines 342, 343 and 460 written with >= for >
ProbGreater_OrEqual(v, p) == v.kind = "num" /\ FracLeq(p, v.val)

\* StopProbability(...) > m_options.probability
ProbGreater(v, p) == v.kind = "num" /\ FracLess(p, v.val)

\* StopProbability(...) <= m_options.probability
ProbLeq(v, p) == v.kind = "neginf" \/ (v.kind = "num" /\ FracLeq(v.val, p))

(***************************************************************************)
(* Points and their assignment.                                            *)
(***************************************************************************)
\* the indices i with m_shapeIndex[i] == -1
UnassignedPoints == {i \in DOMAIN m_shapeIndex : m_shapeIndex[i] = Unassigned}

\* std::vector<int>::resize(n, fill)
Resize(v, n, fill) == [i \in 0..(n - 1) |-> IF i \in DOMAIN v THEN v[i] ELSE fill]

\* m_numAvailablePoints - numInvalid, the _SizeP / _np argument
AvailableNow == m_numAvailablePoints - numInvalid

(***************************************************************************)
(* Candidates (Shape_base).  support is the set of points within epsilon   *)
(* and normal_threshold of the fitted shape (geometry, fixed by the fit);  *)
(* indices is m_indices, used is m_nb_subset_used.  m_score equals         *)
(* m_indices.size() whenever detect reads it (line 608, update_points).    *)
(***************************************************************************)
\* a deleted pool slot (candidates[i] = NULL)
NullCandidate ==
  [support |-> {}, indices |-> {}, used |-> -1, min_bound |-> 0, max_bound |-> 0,
   expected |-> <<0, 1>>]

IsNull(c) == c.used = -1

\* (*it)->create(); p->compute(...) with a valid result
NewCandidate(T) ==
  [support |-> T, indices |-> {}, used |-> 0, min_bound |-> 0, max_bound |-> 0,
   expected |-> <<0, 1>>]

\* Shape_base::compute_bound(sizeS, sizeP), design document 4.4: the
\* interval [matched, matched + unseen] around matched * P / S
compute_bound(c, sizeS, sizeP) ==
  LET m == Cardinality(c.indices)
  IN [c EXCEPT !.min_bound = m,
               !.max_bound = m + (sizeP - sizeS),
               !.expected = IF sizeS <= 0 THEN <<0, 1>> ELSE Frac(m * sizeP, sizeS)]

\* Octree::score on direct octree j: the unassigned points of subset j that
\* match the candidate (they are appended to m_indices)
DirectScore(c, j) == c.support \cap SubsetRange(numPoints, j) \cap UnassignedPoints

\* Shape_base::update_points(shapeIndex): drop the indices that are assigned
update_points(c, shapeIndex) ==
  [c EXCEPT !.indices = {i \in c.indices : shapeIndex[i] = Unassigned}]

\* Shape_base::score() after update_points
Score(c) == Cardinality(c.indices)

RECURSIVE SumAvailable(_)
\* m_availableOctreeSizes[0] + ... + m_availableOctreeSizes[k-1]
SumAvailable(k) == IF k <= 0 THEN 0 ELSE SumAvailable(k - 1) + m_availableOctreeSizes[k - 1]

(***************************************************************************)
(* improveBound (lines 575-615).  The do-while of lines 598-606 scans the  *)
(* subset m_nb_subset_used and goes on while fewer than min_points points  *)
(* were sampled and a subset is left.                                      *)
(***************************************************************************)
\* lines 598-606 as a single pass, without the loop
ScanSubsets_Once(c, numPointsEvaluated, newSampledPoints, min_points) ==
  [cand |-> [c EXCEPT !.indices = c.indices \cup DirectScore(c, c.used), !.used = c.used + 1],
   evaluated |-> numPointsEvaluated + m_availableOctreeSizes[c.used]]

RECURSIVE ScanSubsets(_, _, _, _)
ScanSubsets(c, numPointsEvaluated, newSampledPoints, min_points) ==
  LET j == c.used
      c1 == [c EXCEPT !.indices = c.indices \cup DirectScore(c, j), !.used = j + 1]
      evaluated == numPointsEvaluated + m_availableOctreeSizes[j]
      sampled == newSampledPoints + m_availableOctreeSizes[j]
  IN IF sampled < min_points /\ c1.used < NumSubsets(numPoints)
     THEN ScanSubsets(c1, evaluated, sampled, min_points)
     ELSE [cand |-> c1, evaluated |-> evaluated]

\* lines 575-615 returning true where lines 577 and 580 return false
improveBound_AlwaysTrue(c, sizeP, max_subset, min_points) ==
  IF c.used >= max_subset \/ c.used >= NumSubsets(numPoints)
  THEN [cand |-> c, improved |-> TRUE]
  ELSE LET scan == ScanSubsets(c, SumAvailable(c.used), 0, min_points)
       IN [cand |-> compute_bound(scan.cand, scan.evaluated, sizeP), improved |-> TRUE]

\* lines 575-615
improveBound(c, sizeP, max_subset, min_points) ==
  IF c.used >= max_subset \/ c.used >= NumSubsets(numPoints)
  THEN [cand |-> c, improved |-> FALSE]
  ELSE LET scan == ScanSubsets(c, SumAvailable(c.used), 0, min_points)
       IN [cand |-> compute_bound(scan.cand, scan.evaluated, sizeP), improved |-> TRUE]

(***************************************************************************)
(* detect (lines 266-466).                                                 *)
(***************************************************************************)
\* the comparison with min_points left out
HasMinPoints_Always(n) == TRUE

\* the comparison with min_points off by one
HasMinPoints_OffByOne(n) == n >= m_options.min_points - 1

\* the comparisons of a point count with min_points (lines 321 and 378)
HasMinPoints(n) == n >= m_options.min_points

\* line 460-461: the condition of the main loop
MainLoopContinues(avail, drawn) ==
  /\ ProbGreater(StopProbability(<<m_options.min_points, 1>>, avail, drawn, maxLevel),
                 m_options.probability)
  /\ avail >= m_options.min_points

\* detect's entry without the early return of line 269
Detect_NoEarlyReturn ==
  /\ pc = "idle"
  /\ \E p \in Probabilities, mp \in MinPointsChoices(numPoints) :
        m_options' = [probability |-> p, min_points |-> mp]
  /\ m_shapeIndex' = Resize(m_shapeIndex, m_numAvailablePoints, Unassigned)
  /\ candidates' = <<>>
  /\ bestExp' = <<0, 1>>
  /\ numInvalid' = 0
  /\ nbNewCandidates' = 0
  /\ nbFailedCandidates' = 0
  /\ forceExit' = FALSE
  /\ pc' = "seed"
  /\ UNCHANGED <<engine, m_numAvailablePoints, m_availableOctreeSizes, m_extractedShapes, log>>

\* detect's entry, lines 266-291: return at once without a factory, else
\* store the options, size m_shapeIndex and initialise the locals
Detect ==
  /\ pc = "idle"
  /\ IF numFactories = 0
     THEN /\ pc' = "done"
          /\ UNCHANGED <<m_options, m_shapeIndex, locals>>
     ELSE /\ \E p \in Probabilities, mp \in MinPointsChoices(numPoints) :
               m_options' = [probability |-> p, min_points |-> mp]
          /\ m_shapeIndex' = Resize(m_shapeIndex, m_numAvailablePoints, Unassigned)
          /\ candidates' = <<>>
          /\ bestExp' = <<0, 1>>
          /\ numInvalid' = 0
          /\ nbNewCandidates' = 0
          /\ nbFailedCandidates' = 0
          /\ forceExit' = FALSE
          /\ pc' = "seed"
  /\ UNCHANGED <<engine, m_numAvailablePoints, m_availableOctreeSizes, m_extractedShapes, log>>

\* lines 303-305: one pass of the loop that picks firstSample, a temporary
\* of the seed loop; a pick of an assigned point is rejected and the loop
\* picks again
SeedPick ==
  /\ pc = "seed"
  /\ \E firstSample \in 0..(m_numAvailablePoints - 1) :
       pc' = IF m_shapeIndex[firstSample] # Unassigned THEN "seed" ELSE "draw"
  /\ UNCHANGED <<engine, m_options, m_shapeIndex, m_numAvailablePoints,
                 m_availableOctreeSizes, m_extractedShapes, log>>
  /\ UNCHANGED <<candidates, bestExp, numInvalid, nbNewCandidates, nbFailedCandidates,
                 forceExit>>

\* Octree::drawSamplesFromCellContainingPoint on the global octree: the cell
\* of level 0 is the root and holds every point, a deeper cell holds a part
\* of them; the draw fails when the cell has fewer than requiredSamples
\* unassigned points
DrawCanFail(level) == level > 0 \/ Cardinality(UnassignedPoints) < RequiredSamples

\* the index sets a successful draw can produce
DrawSamples == {S \in SUBSET UnassignedPoints : Cardinality(S) = RequiredSamples}

\* lines 307-308: the draw fails (done is false), the seed loop repeats
DrawFail ==
  /\ pc = "draw"
  /\ \E level \in 0..maxLevel : DrawCanFail(level)
  /\ pc' = "seed"
  /\ UNCHANGED <<engine, m_options, m_shapeIndex, m_numAvailablePoints,
                 m_availableOctreeSizes, m_extractedShapes, log>>
  /\ UNCHANGED locals

(***************************************************************************)
(* Candidate generation, lines 310-343: the draw succeeded; every factory  *)
(* computes a shape on the sample, a valid one is scored by improveBound   *)
(* and joins the pool when its max_bound reaches min_points.               *)
(***************************************************************************)
\* what p->compute can find on the sample: no valid shape ({}), or a valid
\* shape, given by its support among the unassigned points; a valid shape
\* fits at least a minimal sample of the drawn points
FitOutcomes(sample) ==
  {{}} \cup {T \in SUBSET UnassignedPoints : Cardinality(T \cap sample) >= MinimalSampleSize}

\* lines 313-334, acc = [candidates, bestExp, nbFailed]; genMin is the
\* min_points argument of line 318
RECURSIVE FactoryLoop(_, _, _)
FactoryLoop(fits, acc, genMin) ==
  IF Len(fits) = 0 THEN acc
  ELSE IF Head(fits) = {}
    THEN FactoryLoop(Tail(fits), [acc EXCEPT !.nbFailed = @ + 1], genMin)
    ELSE LET p == improveBound(NewCandidate(Head(fits)), AvailableNow, GenMaxSubset,
                               genMin).cand
         IN IF HasMinPoints(p.max_bound)
            THEN FactoryLoop(Tail(fits),
                   [acc EXCEPT !.candidates = Append(@, p),
                               !.bestExp = IF FracLess(@, p.expected) THEN p.expected ELSE @],
                   genMin)
            ELSE FactoryLoop(Tail(fits), [acc EXCEPT !.nbFailed = @ + 1], genMin)

\* lines 341-343: the condition of the candidate generation loop
GenerationContinues(force, best, drawn) ==
  /\ ~force
  /\ ProbGreater(StopProbability(best, AvailableNow, drawn, maxLevel), m_options.probability)
  /\ ProbGreater(StopProbability(<<m_options.min_points, 1>>, AvailableNow, drawn, maxLevel),
                 m_options.probability)

\* leaving detect without line 463 (a return in place of the break)
ExitMainLoop_NoUpdate(invalid) ==
  /\ pc' = "done"
  /\ UNCHANGED m_numAvailablePoints

\* line 463, reached when the main loop ends or is left by the break of line 350
ExitMainLoop(invalid) ==
  /\ pc' = "done"
  /\ m_numAvailablePoints' = m_numAvailablePoints - invalid

\* line 294, the top of the main loop
EnterMainLoop ==
  /\ pc' = "seed"
  /\ bestExp' = <<0, 1>>
  /\ UNCHANGED m_numAvailablePoints

\* lines 307-351 for a draw that succeeds; genMin is the min_points argument
\* of line 318, poolCap and drawCap bound the pool and the number of draws
GenerateWith(genMin, poolCap, drawCap) ==
  /\ pc = "draw"
  /\ nbNewCandidates < drawCap
  /\ \E sample \in DrawSamples :
     \E fits \in [1..numFactories -> FitOutcomes(sample)] :
     \E acc \in {FactoryLoop(fits, [candidates |-> candidates, bestExp |-> bestExp,
                                    nbFailed |-> nbFailedCandidates], genMin)} :
       LET drawn == nbNewCandidates + 1
           force == forceExit \/ acc.nbFailed >= FailedCeiling
       IN /\ Len(acc.candidates) <= poolCap
          /\ candidates' = acc.candidates
          /\ nbNewCandidates' = drawn
          /\ nbFailedCandidates' = acc.nbFailed
          /\ forceExit' = force
          /\ IF GenerationContinues(force, acc.bestExp, drawn)
             THEN pc' = "seed" /\ bestExp' = acc.bestExp /\ UNCHANGED m_numAvailablePoints
             ELSE IF force
               THEN ExitMainLoop(numInvalid) /\ bestExp' = acc.bestExp
               ELSE pc' = "select" /\ bestExp' = acc.bestExp /\ UNCHANGED m_numAvailablePoints
  /\ UNCHANGED <<engine, m_options, m_shapeIndex, m_availableOctreeSizes, m_extractedShapes,
                 log, numInvalid>>

GenerateCandidate == GenerateWith(GenMinPoints, MaxPool, MaxDrawn)

(***************************************************************************)
(* getBestCandidate (lines 528-569).  Positions are those of the source    *)
(* (from 0); candidates[k] of the source is cands[k + 1] here.             *)
(***************************************************************************)
\* std::sort with Shape::Compare_by_max_bound: ascending max_bound, the best
\* candidate last; equal candidates keep their order
RECURSIVE SortByMaxBound(_)
SortByMaxBound(s) ==
  IF Len(s) <= 1 THEN s
  ELSE LET i == CHOOSE i \in 1..Len(s) :
                  /\ \A j \in 1..Len(s) : s[j].max_bound >= s[i].max_bound
                  /\ \A j \in 1..(i - 1) : s[j].max_bound > s[i].max_bound
       IN <<s[i]>> \o SortByMaxBound(SubSeq(s, 1, i - 1) \o SubSeq(s, i + 1, Len(s)))

\* lines 548-561: the for loop over position_stop
RECURSIVE RefineOverlapping(_, _, _, _, _)
RefineOverlapping(cands, position_stop, index_worse_candidate, improved, sizeP) ==
  LET back == cands[Len(cands)]
      stop == [cands |-> cands, position_stop |-> position_stop, improved |-> improved]
  IN IF position_stop < index_worse_candidate THEN stop
     ELSE IF back.min_bound > cands[position_stop + 1].max_bound THEN stop
     ELSE IF cands[position_stop + 1].max_bound <= m_options.min_points THEN stop
     ELSE LET ib == improveBound(cands[position_stop + 1], sizeP, NumSubsets(numPoints),
                                 m_options.min_points)
              c2 == [cands EXCEPT ![position_stop + 1] = ib.cand]
              imp == improved \/ ib.improved
          IN IF back.min_bound > ib.cand.max_bound
             THEN [cands |-> c2, position_stop |-> position_stop, improved |-> imp]
             ELSE RefineOverlapping(c2, position_stop - 1, index_worse_candidate, imp, sizeP)

\* line 535: the condition of the while loop; index_worse_candidate is
\* compared as an unsigned number, so -1 ends the loop
LoopContinues(cands, index_worse_candidate, improved) ==
  index_worse_candidate >= 0 /\ index_worse_candidate < Len(cands) - 1 /\ improved

\* line 540: std::sort from position index_worse_candidate on
SortPool(cands, index_worse_candidate) ==
  SubSeq(cands, 1, index_worse_candidate)
    \o SortByMaxBound(SubSeq(cands, index_worse_candidate + 1, Len(cands)))

\* lines 536-563: one pass of the while loop
BestPass(cands, index_worse_candidate, sizeP) ==
  LET n == Len(cands)
      sorted == SortPool(cands, index_worse_candidate)
      refined == [sorted EXCEPT ![n] = improveBound(sorted[n], sizeP,
                                          NumSubsets(numPoints), m_options.min_points).cand]
  IN RefineOverlapping(refined, n - 2, index_worse_candidate, FALSE, sizeP)

\* lines 535-564: the while loop
RECURSIVE BestLoop(_, _, _, _)
BestLoop(cands, index_worse_candidate, improved, sizeP) ==
  IF ~LoopContinues(cands, index_worse_candidate, improved)
  THEN cands
  ELSE LET r == BestPass(cands, index_worse_candidate, sizeP)
       IN BestLoop(r.cands, r.position_stop, r.improved, sizeP)

\* the pool as getBestCandidate leaves it; the candidate it returns is the last
getBestCandidate(cands, sizeP) ==
  IF Len(cands) = 1 THEN cands ELSE BestLoop(cands, 0, TRUE, sizeP)

(***************************************************************************)
(* The decision on the best candidate, lines 371-457.                      *)
(***************************************************************************)
\* Octree::score on the global octree with 3 * epsilon: the unassigned points
\* within the wider tolerance, which include those within epsilon
GlobalMatches(c) ==
  LET near == c.support \cap UnassignedPoints
  IN {near \cup extra : extra \in SUBSET (UnassignedPoints \ c.support)}

\* Shape_base::connected_component: the largest connected component of the
\* matched points, some non-empty part of them
Components(G) == IF G = {} THEN {{}} ELSE (SUBSET G) \ {{}}

\* global scoring without the m_indices.clear() of line 371
RescoreGlobal_NoClear(c, G) == SortedSeq(c.indices) \o SortedSeq(G)

\* lines 371-372: m_indices.clear(), then score() appends the matches
RescoreGlobal(c, G) == SortedSeq(G)

\* line 373: m_indices restricted to the component C
connected_component(list, C) == SelectSeq(list, LAMBDA i : i \in C)

\* the range test of line 401 with <= in place of <
OwningSubsets_Inclusive(idx) ==
  {j \in 0..(NumSubsets(numPoints) - 1) :
     SubsetOffset(numPoints, j) <= idx /\ idx - SubsetOffset(numPoints, j) <= SubsetSize(numPoints, j)}

\* the subsets j whose index range holds idx (lines 398-409)
OwningSubsets(idx) ==
  {j \in 0..(NumSubsets(numPoints) - 1) :
     SubsetOffset(numPoints, j) <= idx /\ idx - SubsetOffset(numPoints, j) < SubsetSize(numPoints, j)}

\* the loop of lines 389-414 writing m_extractedShapes.size() as the id
RECURSIVE AssignPoints_NextId(_, _, _)
AssignPoints_NextId(list, id, acc) ==
  IF list = <<>> THEN acc
  ELSE AssignPoints_NextId(Tail(list), id,
         [shapeIndex |-> [acc.shapeIndex EXCEPT ![Head(list)] = id + 1],
          numInvalid |-> acc.numInvalid + 1,
          sizes |-> [j \in DOMAIN acc.sizes |->
                       IF j \in OwningSubsets(Head(list)) THEN acc.sizes[j] - 1
                       ELSE acc.sizes[j]],
          log |-> acc.log])

\* the loop of lines 389-414 with the id taken before the push_back of line 383
RECURSIVE AssignPoints_PrevId(_, _, _)
AssignPoints_PrevId(list, id, acc) ==
  IF list = <<>> THEN acc
  ELSE AssignPoints_PrevId(Tail(list), id,
         [shapeIndex |-> [acc.shapeIndex EXCEPT ![Head(list)] = id - 1],
          numInvalid |-> acc.numInvalid + 1,
          sizes |-> [j \in DOMAIN acc.sizes |->
                       IF j \in OwningSubsets(Head(list)) THEN acc.sizes[j] - 1
                       ELSE acc.sizes[j]],
          log |-> acc.log])

\* lines 389-414: the loop over the points of the committed shape,
\* acc = [shapeIndex, numInvalid, sizes, log]
RECURSIVE AssignPoints(_, _, _)
AssignPoints(list, id, acc) ==
  IF list = <<>> THEN acc
  ELSE LET idx == Head(list)
           owners == OwningSubsets(idx)
           said == (IF acc.shapeIndex[idx] # Unassigned THEN {"shapeIndex already assigned!"} ELSE {})
                   \cup (IF Cardinality(owners) > 1
                         THEN {"adjusting available octree sizes failed! (twice)"} ELSE {})
                   \cup (IF owners = {}
                         THEN {"adjusting available octree sizes failed! (never)"} ELSE {})
       IN AssignPoints(Tail(list), id,
            [shapeIndex |-> [acc.shapeIndex EXCEPT ![idx] = id],
             numInvalid |-> acc.numInvalid + 1,
             sizes |-> [j \in DOMAIN acc.sizes |->
                          IF j \in owners THEN acc.sizes[j] - 1 ELSE acc.sizes[j]],
             log |-> acc.log \cup said])

RECURSIVE SubsetSizes(_, _)
\* lines 423-427: subsetSizes[k] = sizes[0] + ... + sizes[k]
SubsetSizes(sizes, k) == IF k < 0 THEN 0 ELSE SubsetSizes(sizes, k - 1) + sizes[k]

\* lines 432-442: every pool entry but the last is updated against the new
\* assignment, deleted below min_points, otherwise bounded anew
UpdateOthers(cands, shapeIndex, sizes, sizeP) ==
  [i \in 1..Len(cands) |->
     IF i = Len(cands) \/ IsNull(cands[i]) THEN cands[i]
     ELSE LET c == update_points(cands[i], shapeIndex)
          IN IF Score(c) < m_options.min_points THEN NullCandidate
             ELSE compute_bound(c, SubsetSizes(sizes, c.used - 1), sizeP)]

\* lines 444-454: move candidates from the back into the empty slots
RECURSIVE Compact(_, _, _)
Compact(cands, start, end) ==
  IF ~(start < end) THEN [cands |-> cands, end |-> end]
  ELSE LET s1 == CHOOSE s \in start..end :
                   /\ (s = end \/ IsNull(cands[s + 1]))
                   /\ \A t \in start..(s - 1) : ~IsNull(cands[t + 1])
           e1 == CHOOSE e \in s1..end :
                   /\ (e = s1 \/ ~IsNull(cands[e + 1]))
                   /\ \A t \in (e + 1)..end : IsNull(cands[t + 1])
       IN IF IsNull(cands[s1 + 1]) /\ ~IsNull(cands[e1 + 1]) /\ s1 < e1
          THEN Compact([cands EXCEPT ![s1 + 1] = cands[e1 + 1], ![e1 + 1] = NullCandidate],
                       s1 + 1, e1 - 1)
          ELSE Compact(cands, s1, e1)

\* lines 444-456: the pool after compaction and candidates.resize(end)
CompactPool(cands) ==
  LET r == Compact(cands, 0, Len(cands) - 1)
  IN SubSeq(r.cands, 1, r.end)

\* lines 459-461: the main loop goes on with its next pass, or ends
NextPassOrExit(avail, drawn, invalid) ==
  IF MainLoopContinues(avail, drawn)
  THEN EnterMainLoop
  ELSE ExitMainLoop(invalid) /\ UNCHANGED bestExp

\* lines 353-354: no candidate in the pool, `continue`
SelectEmpty ==
  /\ pc = "select"
  /\ candidates = <<>>
  /\ NextPassOrExit(AvailableNow, nbNewCandidates, numInvalid)
  /\ UNCHANGED <<engine, m_options, m_shapeIndex, m_availableOctreeSizes, m_extractedShapes,
                 log, candidates, numInvalid, nbNewCandidates,
                 nbFailedCandidates, forceExit>>

\* lines 359-461: select the best candidate, score it on the global octree,
\* keep its largest component, commit it when it is good enough and large
\* enough, update the pool, and test the condition of the main loop
SelectBest ==
  /\ pc = "select"
  /\ candidates # <<>>
  /\ \E pool \in {getBestCandidate(candidates, AvailableNow)} :
     \E G \in GlobalMatches(pool[Len(pool)]) :
     \E C \in Components(G) :
     \E list \in {connected_component(RescoreGlobal(pool[Len(pool)], G), C)} :
     \E scored \in {[pool[Len(pool)] EXCEPT !.indices = SeqRange(list)]} :
     \E good \in {ProbLeq(StopProbability(scored.expected, AvailableNow, nbNewCandidates,
                                          maxLevel), m_options.probability)} :
     \E keep \in {good /\ HasMinPoints(Len(list))} :
     \E after \in {IF keep
                   THEN AssignPoints(list, Len(m_extractedShapes),
                          [shapeIndex |-> m_shapeIndex, numInvalid |-> numInvalid,
                           sizes |-> m_availableOctreeSizes, log |-> log])
                   ELSE [shapeIndex |-> m_shapeIndex, numInvalid |-> numInvalid,
                         sizes |-> m_availableOctreeSizes, log |-> log]} :
     \E avail \in {m_numAvailablePoints - after.numInvalid} :
     \E drawn \in {IF keep THEN nbNewCandidates - 1 ELSE nbNewCandidates} :
     \E slot \in {[pool EXCEPT ![Len(pool)] = IF keep THEN NullCandidate ELSE scored]} :
       /\ m_extractedShapes' = IF keep THEN Append(m_extractedShapes, list)
                               ELSE m_extractedShapes
       /\ m_shapeIndex' = after.shapeIndex
       /\ numInvalid' = after.numInvalid
       /\ m_availableOctreeSizes' = after.sizes
       /\ log' = after.log
       /\ nbNewCandidates' = drawn
       /\ nbFailedCandidates' = IF keep THEN 0 ELSE nbFailedCandidates
       /\ candidates' = IF good
                        THEN CompactPool(UpdateOthers(slot, after.shapeIndex, after.sizes, avail))
                        ELSE slot
       /\ IF MainLoopContinues(avail, drawn)
          THEN EnterMainLoop
          ELSE /\ ExitMainLoop(after.numInvalid)
               /\ bestExp' = IF keep THEN <<0, 1>> ELSE bestExp
  /\ UNCHANGED <<engine, m_options, forceExit>>

Next ==
  \/ AddShapeFactory
  \/ Detect
  \/ SeedPick
  \/ DrawFail
  \/ GenerateCandidate
  \/ SelectEmpty
  \/ SelectBest

Spec == Init /\ [][Next]_vars

(***************************************************************************)
(* Detection on a large input, scaled: the direct octrees of a large input *)
(* hold more than the 500 points of line 318, so that candidate generation *)
(* scans one subset and leaves the others to getBestCandidate.  Here the   *)
(* 500 is scaled to the subsets of MaxPoints points, one kind is           *)
(* registered, and the pool holds up to DeepPool candidates.  Every fit of *)
(* the scene passes line 320 and fewer draws are made than the test of     *)
(* min_points needs to stop generation, so the pool is never empty at line *)
(* 353.                                                                    *)
(***************************************************************************)
\* the 500 of line 318, scaled to the model's subsets
ScaledGenMinPoints == 3

\* largest candidate pool of the scaled detection
DeepPool == 3

DeepInit == Init /\ numPoints = MaxPoints /\ maxLevel = 1

DeepRegister == AddShapeFactory /\ numFactories = 0

DeepDetect ==
  /\ Detect
  /\ m_options'.probability = <<1, 2>>
  /\ m_options'.min_points \in {1, 2}

\* the shapes of the scene: the supports a fit can have on this input
SceneShapes == {{0, 1, 2}, {0, 1, 2, 3}, {0, 1, 3, 4}}

DeepGenerate ==
  /\ GenerateWith(ScaledGenMinPoints, DeepPool, MaxDrawn)
  /\ \A i \in 1..Len(candidates') : candidates'[i].support \in SceneShapes

DeepNext ==
  \/ DeepRegister
  \/ DeepDetect
  \/ SeedPick
  \/ DrawFail
  \/ DeepGenerate
  \/ SelectBest

DeepSpec == DeepInit /\ [][DeepNext]_vars

(***************************************************************************)
(* detect called again on the same engine.  The members keep what the      *)
(* first call left: m_numAvailablePoints was lowered by line 463, so the   *)
(* resize of line 276 cuts m_shapeIndex to that many entries.  The octrees *)
(* still hold all N points: a draw after the cut reads m_shapeIndex past   *)
(* its end, and a seed pick with no available point divides by zero; what  *)
(* follows either is undefined and is not followed (pc = "undefined").     *)
(***************************************************************************)
\* m_shapeIndex has an entry for every point of the octrees
MapComplete == DOMAIN m_shapeIndex = 0..(numPoints - 1)

\* detect, lines 266-291, entered after an earlier call has returned
DetectAgain ==
  /\ pc = "done"
  /\ IF numFactories = 0
     THEN UNCHANGED <<pc, m_options, m_shapeIndex, locals>>
     ELSE /\ \E p \in Probabilities, mp \in MinPointsChoices(numPoints) :
               m_options' = [probability |-> p, min_points |-> mp]
          /\ m_shapeIndex' = Resize(m_shapeIndex, m_numAvailablePoints, Unassigned)
          /\ candidates' = <<>>
          /\ bestExp' = <<0, 1>>
          /\ numInvalid' = 0
          /\ nbNewCandidates' = 0
          /\ nbFailedCandidates' = 0
          /\ forceExit' = FALSE
          /\ pc' = "seed"
  /\ UNCHANGED <<engine, m_numAvailablePoints, m_availableOctreeSizes, m_extractedShapes, log>>

\* line 304 with m_numAvailablePoints = 0: m_rng() % 0
SeedModuloZero ==
  /\ pc = "seed"
  /\ m_numAvailablePoints = 0
  /\ pc' = "undefined"
  /\ UNCHANGED <<engine, m_options, m_shapeIndex, m_numAvailablePoints,
                 m_availableOctreeSizes, m_extractedShapes, log, locals>>

\* line 307 after the cut: the global octree looks up m_shapeIndex for points
\* whose entries were cut off
DrawOutOfBounds ==
  /\ pc = "draw"
  /\ ~MapComplete
  /\ pc' = "undefined"
  /\ UNCHANGED <<engine, m_options, m_shapeIndex, m_numAvailablePoints,
                 m_availableOctreeSizes, m_extractedShapes, log, locals>>

\* lines 307-308 with every entry of m_shapeIndex in place
DrawFailInBounds == MapComplete /\ DrawFail

\* lines 307-351 with every entry of m_shapeIndex in place
GenerateInBounds == MapComplete /\ GenerateCandidate

AgainNext ==
  \/ AddShapeFactory
  \/ Detect
  \/ DetectAgain
  \/ SeedPick
  \/ SeedModuloZero
  \/ DrawFailInBounds
  \/ DrawOutOfBounds
  \/ GenerateInBounds
  \/ SelectEmpty
  \/ SelectBest

AgainSpec == Init /\ [][AgainNext]_vars

\* the program keeps running, and a draw that can succeed infinitely often
\* does succeed ("fair random choices")
FairSpec == Spec /\ WF_vars(Next) /\ SF_vars(GenerateCandidate)

(***************************************************************************)
(* Properties.                                                             *)
(***************************************************************************)
\* the indices of the assigned-point list of the shape at position k (from 1)
ShapePoints(k) == SeqRange(m_extractedShapes[k])

\* the shape ids that occur in the assignment map
ShapeIds == {m_shapeIndex[i] : i \in DOMAIN m_shapeIndex} \ {Unassigned}

\* detect has returned after running with at least one registered kind
Returned == pc = "done" /\ numFactories > 0

\* C1: after detect returns, every index in the assigned-point list of the
\* shape at position k (counted from 0) maps to k in the assignment map and
\* is in the list of no other shape.
C1_ShapeOwnsItsPoints ==
  pc = "done" =>
    \A k \in 1..Len(m_extractedShapes) : \A i \in ShapePoints(k) :
      /\ i \in DOMAIN m_shapeIndex
      /\ m_shapeIndex[i] = k - 1
      /\ \A k2 \in 1..Len(m_extractedShapes) : k2 # k => i \notin ShapePoints(k2)

C1_Witness == pc = "done" /\ Len(m_extractedShapes) >= 2

\* C2: after detect returns, for every set of registered kinds (the empty
\* set included), the number of indices of the unassigned-points view plus
\* the sizes of the assigned-point lists of all shapes is N.
C2_ViewPlusShapesIsN ==
  pc = "done" =>
    Cardinality(UnassignedPoints) + SumLen(m_extractedShapes) = numPoints

\* C3: every extracted shape has at least min_points assigned indices, and a
\* shape is appended only in a pass whose best candidate has an overlook
\* probability <= probability and a component of at least min_points points.
C3_ShapesHaveMinPoints ==
  /\ [](\A k \in 1..Len(m_extractedShapes) :
          Len(m_extractedShapes[k]) >= m_options.min_points)
  /\ [][Len(m_extractedShapes') > Len(m_extractedShapes) =>
          /\ pc = "select"
          /\ Len(m_extractedShapes') = Len(m_extractedShapes) + 1
          /\ Len(m_extractedShapes'[Len(m_extractedShapes')]) >= m_options.min_points
          /\ LET pool == getBestCandidate(candidates, AvailableNow)
             IN ProbLeq(StopProbability(pool[Len(pool)].expected, AvailableNow,
                                        nbNewCandidates, maxLevel),
                        m_options.probability)]_vars

C3_Witness ==
  /\ pc = "done"
  /\ m_options.min_points = 2
  /\ \E k \in 1..Len(m_extractedShapes) : Len(m_extractedShapes[k]) = 2

C5_AssignmentMonotone ==
  /\ [][\A i \in DOMAIN m_shapeIndex :
          m_shapeIndex[i] # Unassigned =>
            i \in DOMAIN m_shapeIndex' /\ m_shapeIndex'[i] = m_shapeIndex[i]]_vars
  /\ []("shapeIndex already assigned!" \notin log)

C5_Witness ==
  /\ Len(m_extractedShapes) >= 2
  /\ \E i \in DOMAIN m_shapeIndex : m_shapeIndex[i] = 0
  /\ \E i \in DOMAIN m_shapeIndex : m_shapeIndex[i] = 1

\* C6: with at least one registered kind detect eventually returns: the
\* seed loop, which repeats until a sample of 4 unassigned points is drawn,
\* does not repeat forever (up to the draws the model allows).
C6_DetectReturns ==
  (pc = "seed") ~> (pc = "done" \/ nbNewCandidates >= MaxDrawn)

\* C7: with min_points > N and a registered kind, detect returns with no
\* shape and all N points unassigned.
C7_MinPointsAboveN ==
  (Returned /\ m_options.min_points > numPoints) =>
    /\ m_extractedShapes = <<>>
    /\ DOMAIN m_shapeIndex = 0..(numPoints - 1)
    /\ \A i \in DOMAIN m_shapeIndex : m_shapeIndex[i] = Unassigned

C7_Witness ==
  /\ Returned
  /\ m_options.min_points > numPoints
  /\ nbNewCandidates >= 1

\* C8: with probability = 1 detect makes one pass of the main loop with one
\* draw (the commit takes the draw back from the counter), and returns with
\* at most one shape.
C8_ProbabilityOne ==
  (Returned /\ m_options.probability = <<1, 1>>) =>
    /\ Len(m_extractedShapes) <= 1
    /\ nbNewCandidates + Len(m_extractedShapes) = 1

C8_Witness ==
  /\ Returned
  /\ m_options.probability = <<1, 1>>
  /\ Len(m_extractedShapes) = 1

\* C9: when the force-exit flag fires, detect returns with the shapes and
\* the assignment map as the last commit left them, and
\* number_of_unassigned_points() is N minus the points assigned to shapes.
C9_ForceExitKeepsShapes ==
  /\ [][(forceExit' /\ ~forceExit) =>
          /\ pc' = "done"
          /\ m_extractedShapes' = m_extractedShapes
          /\ m_shapeIndex' = m_shapeIndex]_vars
  /\ []((pc = "done" /\ forceExit) =>
          /\ m_numAvailablePoints = numPoints - SumLen(m_extractedShapes)
          /\ m_numAvailablePoints = Cardinality(UnassignedPoints))

C9_Witness == pc = "done" /\ forceExit /\ Len(m_extractedShapes) >= 1

\* C10: detect with no registered kind returns at once: no sample is drawn,
\* the shape list is empty, no point is assigned and
\* number_of_unassigned_points() is still N.
C10_NoKindsNoChange ==
  (pc = "done" /\ numFactories = 0) =>
    /\ nbNewCandidates = 0
    /\ m_extractedShapes = <<>>
    /\ ShapeIds = {}
    /\ m_numAvailablePoints = numPoints

C10_Witness == pc = "done" /\ numFactories = 0 /\ numPoints >= RequiredSamples

\* the constructor has returned an engine
Built == ctor.pc = "built"

\* the index range [offset, offset + size) of direct octree j
OctreeRange(j) ==
  {i \in 0..(numPoints - 1) :
     /\ m_direct_octrees[j].offset <= i
     /\ i < m_direct_octrees[j].offset + m_direct_octrees[j].size}

RECURSIVE SumSizes(_)
\* m_direct_octrees[0].size + ... + m_direct_octrees[k].size
SumSizes(k) == IF k < 0 THEN 0 ELSE SumSizes(k - 1) + m_direct_octrees[k].size

\* C11: constructing the engine over an empty point sequence fails with an
\* EmptyInput error, and no engine with octrees and subsets is produced.
C11_EmptyInputRejected ==
  numPoints = 0 => ctor.pc \in {"new", "EmptyInput"}

\* C12: two runs over identical input points with identical arguments
\* produce identical outputs; the order the constructor leaves the caller's
\* points in is the first of them, all indices of the outputs refer to it.
C12_RunsAgree ==
  (Built /\ run1 # NoRun) => first = run1

\* C13: after construction over N >= 1 points the index ranges of the direct
\* octrees are pairwise disjoint, their union is [0, N), the sizes sum to N,
\* the array is a permutation of the input, and no pass of the loop moves a
\* point already placed in a later subset.
C13_SubsetsPartition ==
  /\ []((Built /\ numPoints >= 1) =>
          /\ DOMAIN m_direct_octrees = 0..(m_num_subsets - 1)
          /\ \A j \in DOMAIN m_direct_octrees :
               /\ m_direct_octrees[j].begin = m_direct_octrees[j].offset
               /\ m_direct_octrees[j].size = m_availableOctreeSizes[j]
               /\ \A k \in DOMAIN m_direct_octrees :
                    j # k => OctreeRange(j) \cap OctreeRange(k) = {}
          /\ UNION {OctreeRange(j) : j \in DOMAIN m_direct_octrees} = 0..(numPoints - 1)
          /\ SumSizes(m_num_subsets - 1) = numPoints
          /\ Tracked(numPoints) =>
               /\ Len(first) = numPoints
               /\ SeqRange(first) = 1..numPoints)
  /\ [][(ctor.pc = "subsets" /\ Tracked(numPoints)) =>
          \A p \in (ctor.last + 1)..(numPoints - 1) : first'[p + 1] = first[p + 1]]_vars

C13_Witness ==
  /\ Built
  /\ numPoints = MaxTracked
  /\ first # InputArray(numPoints)

\* C14, as stated: for every N >= 1 subset 0 is the smallest and subset
\* K - 1 the largest, size(0) <= size(s) <= size(K - 1).
C14_SubsetZeroSmallest ==
  (Built /\ numPoints >= 1) =>
    \A j \in DOMAIN m_availableOctreeSizes :
      /\ m_availableOctreeSizes[0] <= m_availableOctreeSizes[j]
      /\ m_availableOctreeSizes[j] <= m_availableOctreeSizes[m_num_subsets - 1]

\* C14, amended: for every N >= 1, K = max(2, floor(log2 N) - 9); the sizes
\* of the subsets 1..K-1 do not decrease, subset K - 1 is the largest of
\* all, and subset 0, which takes the rest, has the size of subset 1 or one
\* point more.
C14_SizesOrderedFromOne ==
  (Built /\ numPoints >= 1) =>
    /\ m_num_subsets = Max(2, FloorLog2(numPoints) - 9)
    /\ \A j \in 1..(m_num_subsets - 2) :
         m_availableOctreeSizes[j] <= m_availableOctreeSizes[j + 1]
    /\ \A j \in DOMAIN m_availableOctreeSizes :
         m_availableOctreeSizes[j] <= m_availableOctreeSizes[m_num_subsets - 1]
            \/ (j = 0 /\ m_num_subsets = 2)
    /\ m_availableOctreeSizes[0] - m_availableOctreeSizes[1] \in {0, 1}

C14_Witness ==
  /\ Built
  /\ m_num_subsets >= 3
  /\ m_availableOctreeSizes[0] > m_availableOctreeSizes[1]


\* a step of SelectBest that commits a shape and goes on with the main loop
CommitStep ==
  /\ pc = "select"
  /\ candidates # <<>>
  /\ Len(m_extractedShapes') = Len(m_extractedShapes) + 1
  /\ pc' # "done"

\* the positions of the pool, as getBestCandidate left it, of the candidates
\* other than the best whose score under the assignment a is >= min_points
Survivors(pool, a) ==
  {i \in 1..(Len(pool) - 1) : Score(update_points(pool[i], a)) >= m_options.min_points}

\* C15: in the pool update after a commit, every candidate other than the
\* committed one whose score without the newly assigned points is >= min_points
\* is in the pool exactly once when the next pass of the main loop starts
C15_SurvivorsStayInPool ==
  [][CommitStep =>
       LET pool == getBestCandidate(candidates, AvailableNow)
           surv == Survivors(pool, m_shapeIndex')
       IN \A i \in surv :
            Cardinality({k \in 1..Len(candidates') : candidates'[k].support = pool[i].support})
              = Cardinality({j \in surv : pool[j].support = pool[i].support})]_vars

\* C16: when getBestCandidate returns on a pool of two or more candidates, the
\* max_bound of the candidate it returns (the last) is >= the max_bound of
\* every other candidate of the pool
C16_ReturnsTopCandidate ==
  (pc = "select" /\ Len(candidates) >= 2) =>
    LET pool == getBestCandidate(candidates, AvailableNow)
    IN \A i \in 1..Len(pool) : pool[Len(pool)].max_bound >= pool[i].max_bound


\* the candidates improveBound is called on in a state: the fit of a draw
\* (line 316), and the pool candidates (lines 543 and 557)
RefinedCandidates ==
  {NewCandidate(T) : T \in SceneShapes} \cup {candidates[i] : i \in 1..Len(candidates)}

\* the min_points arguments of lines 318, 543 and 557
MinPointsArguments == {GenMinPoints, ScaledGenMinPoints, m_options.min_points}

\* the max_subset arguments of lines 318, 543 and 557
MaxSubsetArguments == {GenMaxSubset, NumSubsets(numPoints)}

InDetectLoop == pc \in {"seed", "draw", "select"}

PoolBestExpected ==
  LET best == CHOOSE i \in 1..Len(candidates) :
                \A j \in 1..Len(candidates) : FracLeq(candidates[j].expected, candidates[i].expected)
  IN candidates[best].expected

\* one of the two stopping tests of candidate generation holds: the overlook
\* probability of a shape of min_points points, or of the best candidate of
\* the pool, is <= probability
OverlookMet ==
  \/ ProbLeq(StopProbability(<<m_options.min_points, 1>>, AvailableNow, nbNewCandidates,
                             maxLevel), m_options.probability)
  \/ /\ candidates # <<>>
     /\ ProbLeq(StopProbability(PoolBestExpected, AvailableNow, nbNewCandidates, maxLevel),
                m_options.probability)

\* C18: candidate generation draws no further sample once the overlook
\* probability of min_points, or of the best candidate of the pool (those
\* carried over from earlier passes of the main loop included), is
\* <= probability
C18_NoDrawOnceOverlookMet ==
  [][(pc = "draw" /\ nbNewCandidates' = nbNewCandidates + 1) => ~OverlookMet]_vars


\* C19: the force-exit flag is set only when more than the ceiling of
\* candidates have failed since the counter was last reset
C19_ForceOnlyAboveCeiling == forceExit => nbFailedCandidates > FailedCeiling

\* the diagnostics of lines 403 and 412
CounterFailures ==
  {"adjusting available octree sizes failed! (twice)",
   "adjusting available octree sizes failed! (never)"}

\* C20: in the main loop the counter of every subset is the number of
\* unassigned indices of its range, the counters sum to N - numInvalid, every
\* index lies in the range of exactly one subset, and neither the 'failed
\* (never)' nor the 'failed (twice)' branch was taken
C20_CountersExact ==
  /\ log \cap CounterFailures = {}
  /\ InDetectLoop =>
       /\ \A j \in 0..(NumSubsets(numPoints) - 1) :
            m_availableOctreeSizes[j]
              = Cardinality(SubsetRange(numPoints, j) \cap UnassignedPoints)
       /\ SumAvailable(NumSubsets(numPoints)) = numPoints - numInvalid
       /\ \A idx \in 0..(numPoints - 1) :
            Cardinality({j \in 0..(NumSubsets(numPoints) - 1) :
                           idx \in SubsetRange(numPoints, j)}) = 1

\* two shapes are committed and both subsets have lost points
C20_Witness ==
  /\ InDetectLoop
  /\ Len(m_extractedShapes) >= 2
  /\ \A j \in 0..(NumSubsets(numPoints) - 1) :
       m_availableOctreeSizes[j] < SubsetSize(numPoints, j)


\* the values of remainingPoints with which the loop of lines 195-200 runs,
\* for the inputs of the constructor
PickRemainders ==
  UNION {{RemainingAt(n, j) : j \in 1..(NumSubsets(n) - 1)} : n \in CtorInputs}

\* C21 as stated: once engines are constructed, there are a point count, a
\* subset level (hence a remainingPoints), a position i < subsetSize and an
\* outcome of m_rng() % 2 for which the index of line 197 is >= remainingPoints,
\* so that the clamp of line 198 changes it
C21_ClampChangesSomeIndex ==
  Built =>
    \E r \in PickRemainders : \E i \in 0..(LoopSubsetSize(1, r) - 1) : \E bit \in {0, 1} :
      bit + 2 * i >= r /\ PickIndex(bit, i, r) # bit + 2 * i

\* C21, amended: in every pass of the subset loop with s > 0, for every
\* position i < subsetSize and both outcomes of m_rng() % 2, the index of line
\* 197 is below remainingPoints and the clamp of line 198 leaves it unchanged
C21_ClampNeverChanges ==
  (ctor.pc = "subsets" /\ ctor.s > 0) =>
    \A i \in 0..(LoopSubsetSize(ctor.s, ctor.remainingPoints) - 1) : \A bit \in {0, 1} :
      /\ bit + 2 * i < ctor.remainingPoints
      /\ PickIndex(bit, i, ctor.remainingPoints) = bit + 2 * i

\* a subset of an even number of points was picked, largest index
\* remainingPoints - 1 included, and the picks moved points
C21_Witness ==
  /\ ctor.pc = "subsets"
  /\ ctor.s = 0
  /\ Tracked(numPoints)
  /\ numPoints >= 4
  /\ numPoints % 2 = 0
  /\ first # InputArray(numPoints)


\* the step in which detect is entered again and passes the test of line 269
SecondCallStep == pc = "done" /\ pc' = "seed"

\* C22: a second call of detect keeps the result of the first: the
\* assignment map keeps length N and every assigned entry, the extracted
\* shapes stay as they are, and the seed points the call can pick (line 304)
\* are all the indices that are still unassigned
C22_SecondCallKeepsResult ==
  [][SecondCallStep =>
       /\ DOMAIN m_shapeIndex' = 0..(numPoints - 1)
       /\ \A i \in DOMAIN m_shapeIndex :
            m_shapeIndex[i] # Unassigned =>
              i \in DOMAIN m_shapeIndex' /\ m_shapeIndex'[i] = m_shapeIndex[i]
       /\ m_extractedShapes' = m_extractedShapes
       /\ {i \in 0..(m_numAvailablePoints' - 1) :
             i \in DOMAIN m_shapeIndex' /\ m_shapeIndex'[i] = Unassigned}
            = UnassignedPoints]_vars


\* the passes getBestCandidate's loop makes from a loop state, at most fuel
\* of them: the pool and index_worse_candidate at the top of each
RECURSIVE PassesFrom(_, _, _, _, _)
PassesFrom(cands, index_worse_candidate, improved, sizeP, fuel) ==
  IF ~LoopContinues(cands, index_worse_candidate, improved) \/ fuel = 0 THEN {}
  ELSE LET r == BestPass(cands, index_worse_candidate, sizeP)
       IN {[cands |-> cands, index |-> index_worse_candidate]}
            \cup PassesFrom(r.cands, r.position_stop, r.improved, sizeP, fuel - 1)

\* the loop ends after at most fuel passes
RECURSIVE EndsWithin(_, _, _, _, _)
EndsWithin(cands, index_worse_candidate, improved, sizeP, fuel) ==
  IF ~LoopContinues(cands, index_worse_candidate, improved) THEN TRUE
  ELSE IF fuel = 0 THEN FALSE
  ELSE LET r == BestPass(cands, index_worse_candidate, sizeP)
       IN EndsWithin(r.cands, r.position_stop, r.improved, sizeP, fuel - 1)

\* how many candidates of the pool have the support T
CountSupport(pool, T) == Cardinality({k \in 1..Len(pool) : pool[k].support = T})

\* C23: on a non-empty pool getBestCandidate ends, after at most K * n + 1
\* passes of its loop; every pass after which the loop goes on has advanced
\* the used-subset count of a candidate other than the best of that pass; no
\* used-subset count exceeds K; the pool it leaves holds the same candidates,
\* none added or removed, and the candidate returned is one of them
C23_SelectionTerminates ==
  (pc = "select" /\ candidates # <<>>) =>
    LET n == Len(candidates)
        K == NumSubsets(numPoints)
        fuel == IF n = 1 THEN 0 ELSE K * n + 1
        start == IF n = 1 THEN -1 ELSE 0
        pool == getBestCandidate(candidates, AvailableNow)
    IN /\ EndsWithin(candidates, start, TRUE, AvailableNow, fuel)
       /\ \A st \in PassesFrom(candidates, start, TRUE, AvailableNow, fuel) :
            LET sorted == SortPool(st.cands, st.index)
                r == BestPass(st.cands, st.index, AvailableNow)
            IN /\ \A k \in 1..n : r.cands[k].support = sorted[k].support
               /\ \A k \in 1..n : r.cands[k].used >= sorted[k].used /\ r.cands[k].used <= K
               /\ LoopContinues(r.cands, r.position_stop, r.improved) =>
                    \E k \in 1..(n - 1) : r.cands[k].used > sorted[k].used
       /\ Len(pool) = n
       /\ \A k \in 1..n : ~IsNull(pool[k]) /\ pool[k].used <= K
       /\ \A k \in 1..n :
            CountSupport(pool, candidates[k].support)
              = CountSupport(candidates, candidates[k].support)

\* a pool of candidates scanned on one subset on which the loop makes a
\* second pass, the first having advanced a candidate
C23_Witness ==
  /\ pc = "select"
  /\ Len(candidates) >= 2
  /\ \A k \in 1..Len(candidates) : candidates[k].used = 1
  /\ Cardinality(PassesFrom(candidates, 0, TRUE, AvailableNow,
                            NumSubsets(numPoints) * Len(candidates) + 1)) >= 2
  /\ \A k \in 1..Len(candidates) : getBestCandidate(candidates, AvailableNow)[k].used = 2

====
